---- MODULE Spec2Model ----
(***************************************************************************)
(* Model of the diagram-generation pipeline of app/services/csv_service.py *)
(* and of its two callers in app/main.py.                                  *)
(*                                                                         *)
(* Texts are sequences of one-character strings, so that the regular       *)
(* expressions of the source are modelled by what they do to characters.   *)
(***************************************************************************)
EXTENDS Integers, Sequences, FiniteSets, TLC

VARIABLES
    fnPc,       \* position of the pure-function harness: "ready" | "done"
    fnText,     \* the text handed to the function under test
    fnHint,     \* lang_hint of _extract_code_block (<<>> is None)
    fnOut,      \* what the function returned
    serial,     \* the hosting layer runs one request at a time
    pc,         \* pc[r]: the position of request r in its orchestrator
    loc,        \* loc[r]: the arguments and local variables of request r
    outcome,    \* outcome[r]: "none" | "returned" | "raised"
    result,     \* result[r]: the record returned to the caller
    tmpFiles,   \* the temporary CSV copies on disk, by the request that made them
    artifact,   \* artifact[name]: the source whose render the file name holds
    trace,      \* trace[r]: the steps request r has run, in order
    seen        \* seen[r]: what the returned image held when r returned

fnVars  == <<fnPc, fnText, fnHint, fnOut>>
reqVars == <<serial, pc, loc, outcome, result, tmpFiles, artifact, trace, seen>>
vars    == <<fnVars, reqVars>>

(***************************************************************************)
(* Requests                                                                *)
(***************************************************************************)
NumReqs == 2

Reqs == 1..NumReqs

\* an optional value: None, or the value in a one-element tuple
None == <<>>
Some(x) == <<x>>

NoLocals ==
    [kind |-> "none", existing |-> <<>>, resp |-> <<>>, code |-> <<>>,
     img |-> None, actors |-> <<>>, activities |-> <<>>]

\* no request has been received
NoRequests ==
    /\ pc = [r \in Reqs |-> "idle"]
    /\ loc = [r \in Reqs |-> NoLocals]
    /\ outcome = [r \in Reqs |-> "none"]
    /\ result = [r \in Reqs |-> <<>>]
    /\ tmpFiles = {}
    /\ trace = [r \in Reqs |-> <<>>]
    /\ seen = [r \in Reqs |-> None]

\* the pure-function harness is not in use
NoCall ==
    /\ fnPc = "off"
    /\ fnText = <<>>
    /\ fnHint = <<>>
    /\ fnOut = <<>>

(***************************************************************************)
(* Characters                                                              *)
(***************************************************************************)
Uppers == <<"A","B","C","D","E","F","G","H","I","J","K","L","M",
            "N","O","P","Q","R","S","T","U","V","W","X","Y","Z">>
Lowers == <<"a","b","c","d","e","f","g","h","i","j","k","l","m",
            "n","o","p","q","r","s","t","u","v","w","x","y","z">>
Digits == <<"0","1","2","3","4","5","6","7","8","9">>

Range(s) == {s[i] : i \in DOMAIN s}

Min(S) == CHOOSE x \in S : \A y \in S : x <= y
Max(S) == CHOOSE x \in S : \A y \in S : x >= y

UpperChars == Range(Uppers)

LowerOf == [c \in UpperChars |-> Lowers[CHOOSE i \in DOMAIN Uppers : Uppers[i] = c]]

\* re.IGNORECASE: characters are compared after case folding
Lower(c) == IF c \in UpperChars THEN LowerOf[c] ELSE c

\* \s of the re module, and the characters str.strip() removes
IsSpace(c) == c \in {" ", "\t", "\n", "\r", "\f"}

\* \w of the re module
WordChars == Range(Uppers) \cup Range(Lowers) \cup Range(Digits) \cup {"_"}

IsWord(c) == c \in WordChars

\* str.strip()
RECURSIVE LStrip(_)
LStrip(s) ==
    IF s # <<>> /\ IsSpace(Head(s)) THEN LStrip(Tail(s)) ELSE s

RECURSIVE RStrip(_)
RStrip(s) ==
    IF s # <<>> /\ IsSpace(s[Len(s)]) THEN RStrip(SubSeq(s, 1, Len(s) - 1)) ELSE s

Strip(s) == RStrip(LStrip(s))

\* one character of a pattern against one character of the text
\* (ic: the pattern is compiled with re.IGNORECASE)
CharEq(c, p, ic) == c = p \/ (ic /\ Lower(c) = Lower(p))

\* a literal of a pattern matches the text at position i
LitAt(t, i, lit, ic) ==
    /\ i >= 1
    /\ i + Len(lit) - 1 <= Len(t)
    /\ \A k \in DOMAIN lit : CharEq(t[i + k - 1], lit[k], ic)

\* the length of the longest run of \s (of \w) characters from position j
RECURSIVE SpaceRun(_, _)
SpaceRun(t, j) ==
    IF j <= Len(t) /\ IsSpace(t[j]) THEN 1 + SpaceRun(t, j + 1) ELSE 0

RECURSIVE WordRun(_, _)
WordRun(t, j) ==
    IF j <= Len(t) /\ IsWord(t[j]) THEN 1 + WordRun(t, j + 1) ELSE 0

(***************************************************************************)
(* _extract_code_block                                                     *)
(***************************************************************************)
Backtick == "bq"   \* U+0060, which a TLA+ string literal cannot hold

Fence == <<Backtick, Backtick, Backtick>>

\* ([\s\S]*?)``` started at j: the lazy group grows one character at a time
\* and ends at the first fence at or after j; 0 when there is none
RECURSIVE LazyUntilFence(_, _)
LazyUntilFence(t, j) ==
    IF j + Len(Fence) - 1 > Len(t) THEN 0
    ELSE IF LitAt(t, j, Fence, FALSE) THEN j
    ELSE LazyUntilFence(t, j + 1)

\* \s*([\s\S]*?)``` started at j0 with \s* taking k characters; \s* is greedy
\* and gives characters back one at a time. The result is
\* <<group start, fence position>>, or <<>> when nothing matches
RECURSIVE SpacesThenGroup(_, _, _)
SpacesThenGroup(t, j0, k) ==
    IF k < 0 THEN <<>>
    ELSE IF LazyUntilFence(t, j0 + k) # 0
         THEN <<j0 + k, LazyUntilFence(t, j0 + k)>>
         ELSE SpacesThenGroup(t, j0, k - 1)

\* rf"```{lang_hint}\s*([\s\S]*?)```" tried at position i (re.IGNORECASE)
HintedMatchAt(t, i, hint) ==
    LET j0 == i + Len(Fence) + Len(hint)
    IN  IF LitAt(t, i, Fence \o hint, TRUE)
        THEN SpacesThenGroup(t, j0, SpaceRun(t, j0))
        ELSE <<>>

\* (?:\w+)?\s*([\s\S]*?)``` started at j0 with \w+ taking m characters: the
\* optional \w+ is greedy, gives characters back one at a time and is
\* skipped last (m = 0)
RECURSIVE WordsThenGroup(_, _, _)
WordsThenGroup(t, j0, m) ==
    IF m < 0 THEN <<>>
    ELSE IF SpacesThenGroup(t, j0 + m, SpaceRun(t, j0 + m)) # <<>>
         THEN SpacesThenGroup(t, j0 + m, SpaceRun(t, j0 + m))
         ELSE WordsThenGroup(t, j0, m - 1)

\* r"```(?:\w+)?\s*([\s\S]*?)```" tried at position i
AnyMatchAt(t, i) ==
    LET j0 == i + Len(Fence)
    IN  IF LitAt(t, i, Fence, FALSE)
        THEN WordsThenGroup(t, j0, WordRun(t, j0))
        ELSE <<>>

\* re.search: the match at the leftmost position where the pattern matches
RECURSIVE HintedSearchFrom(_, _, _)
HintedSearchFrom(t, i, hint) ==
    IF i > Len(t) THEN <<>>
    ELSE IF HintedMatchAt(t, i, hint) # <<>> THEN HintedMatchAt(t, i, hint)
    ELSE HintedSearchFrom(t, i + 1, hint)

HintedSearch(t, hint) == HintedSearchFrom(t, 1, hint)

RECURSIVE AnySearchFrom(_, _)
AnySearchFrom(t, i) ==
    IF i > Len(t) THEN <<>>
    ELSE IF AnyMatchAt(t, i) # <<>> THEN AnyMatchAt(t, i)
    ELSE AnySearchFrom(t, i + 1)

AnySearch(t) == AnySearchFrom(t, 1)

\* m.group(1)
Group1(t, m) == SubSeq(t, m[1], m[2] - 1)

extract_code_block(t, hint) ==
    LET mh == IF hint # <<>> THEN HintedSearch(t, hint) ELSE <<>>
        ma == AnySearch(t)
    IN  IF mh # <<>> THEN Strip(Group1(t, mh))
        ELSE IF ma # <<>> THEN Strip(Group1(t, ma))
        ELSE Strip(t)

(***************************************************************************)
(* Texts for the pure functions: concatenations of a few pieces            *)
(***************************************************************************)
MaxPieces == 5

plantuml == <<"p","l","a","n","t","u","m","l">>

RECURSIVE Flatten(_)
Flatten(ps) == IF ps = <<>> THEN <<>> ELSE Head(ps) \o Flatten(Tail(ps))

SeqsUpTo(S, n) == UNION {[1..k -> S] : k \in 0..n}

FencePieces ==
    { Fence,
      Fence \o plantuml,
      Fence \o <<"P","l","a","n","t","U","M","L">>,
      <<"x">>, <<"+">>, <<"\n">> }

FenceTexts == {Flatten(ps) : ps \in SeqsUpTo(FencePieces, MaxPieces)}

(***************************************************************************)
(* Harness of _extract_code_block                                          *)
(***************************************************************************)
InitExtract ==
    /\ serial = TRUE
    /\ artifact = <<>>
    /\ NoRequests
    /\ fnPc = "ready"
    /\ fnText \in FenceTexts
    /\ fnHint \in {<<>>, plantuml}
    /\ fnOut = <<>>

CallExtract ==
    /\ fnPc = "ready"
    /\ fnOut' = extract_code_block(fnText, fnHint)
    /\ fnPc' = "done"
    /\ UNCHANGED <<fnText, fnHint, reqVars>>

NextExtract == CallExtract

SpecExtract == InitExtract /\ [][NextExtract]_vars

(***************************************************************************)
(* Fenced blocks of a text, as the properties of extraction speak of them: *)
(* an opening fence, the kind label written right after it, the content    *)
(* up to the next fence, which closes the block.                           *)
(***************************************************************************)
RECURSIVE TokenRun(_, _)
TokenRun(t, j) ==
    IF j <= Len(t) /\ ~IsSpace(t[j]) /\ t[j] # Backtick
    THEN 1 + TokenRun(t, j + 1) ELSE 0

\* The kind label is the token attached to the opening fence, ended by white
\* space (the rest of the opening fence line). When the block is written on
\* one line and white space does not end the token, the label is read as the
\* patterns of the source read it: the word characters after the fence.
LabelRun(t, j) ==
    LET n == TokenRun(t, j)
    IN  IF j + n <= Len(t) /\ IsSpace(t[j + n]) THEN n ELSE WordRun(t, j)

RECURSIVE BlocksFrom(_, _)
BlocksFrom(t, i) ==
    LET open  == LazyUntilFence(t, i)
        lab   == open + Len(Fence)
        n     == LabelRun(t, lab)
        close == LazyUntilFence(t, lab + n)
    IN  IF open = 0 \/ close = 0 THEN <<>>
        ELSE <<[label |-> SubSeq(t, lab, lab + n - 1),
                content |-> SubSeq(t, lab + n, close - 1)]>>
             \o BlocksFrom(t, close + Len(Fence))

Blocks(t) == BlocksFrom(t, 1)

LowerSeq(s) == [i \in DOMAIN s |-> Lower(s[i])]

\* the blocks whose opening fence names the hinted kind, case-insensitively
HintedBlocks(t, hint) ==
    {b \in DOMAIN Blocks(t) : LowerSeq(Blocks(t)[b].label) = LowerSeq(hint)}

\* C3: when the text has a fenced block whose opening fence names the hinted
\* kind, _extract_code_block returns the trimmed content of (the first) such
\* block, whatever surrounds or precedes it.
C3_HintedExtraction ==
    (fnPc = "done" /\ fnHint # <<>> /\ HintedBlocks(fnText, fnHint) # {})
        => fnOut = Strip(Blocks(fnText)[Min(HintedBlocks(fnText, fnHint))].content)

\* C4: when the text has no fenced block of the hinted kind but has a fenced
\* block, _extract_code_block returns the trimmed content of the first block,
\* the kind label not being part of it.
C4_FallbackExtraction ==
    (fnPc = "done" /\ HintedBlocks(fnText, fnHint) = {} /\ Blocks(fnText) # <<>>)
        => fnOut = Strip(Blocks(fnText)[1].content)

(***************************************************************************)
(* _extract_activities_from_plantuml                                       *)
(***************************************************************************)
\* the line boundaries of str.splitlines() that the texts here can hold
LineBreaks == {"\n", "\r", "\f"}

\* str.splitlines(): cur is the line being read; "\r\n" is one boundary and
\* a boundary at the end of the text opens no further line
RECURSIVE SplitLinesFrom(_, _, _)
SplitLinesFrom(t, i, cur) ==
    IF i > Len(t) THEN (IF cur = <<>> THEN <<>> ELSE <<cur>>)
    ELSE IF t[i] = "\r" /\ i < Len(t) /\ t[i + 1] = "\n"
         THEN <<cur>> \o SplitLinesFrom(t, i + 2, <<>>)
    ELSE IF t[i] \in LineBreaks
         THEN <<cur>> \o SplitLinesFrom(t, i + 1, <<>>)
    ELSE SplitLinesFrom(t, i + 1, Append(cur, t[i]))

splitlines(t) == SplitLinesFrom(t, 1, <<>>)

\* sub in line
Contains(line, sub) == \E i \in 1..Len(line) : LitAt(line, i, sub, FALSE)

Arrow == <<"-", ">">>
Colon == <<":">>

\* a filter that takes a line holding either token
IsActivityEither(line) == Contains(line, Arrow) \/ Contains(line, Colon)

\* the condition of the comprehension
IsActivity(line) == Contains(line, Arrow) /\ Contains(line, Colon)

RECURSIVE StripEach(_)
StripEach(ls) ==
    IF ls = <<>> THEN <<>> ELSE <<Strip(Head(ls))>> \o StripEach(Tail(ls))

extract_activities_from_plantuml(t) ==
    StripEach(SelectSeq(splitlines(t), IsActivity))

(***************************************************************************)
(* Harness of _extract_activities_from_plantuml                            *)
(***************************************************************************)
MaxLinePieces == 6

LinePieces ==
    { <<"a", "-", ">", "b", ":", "m">>, Arrow, Colon, <<" ">>, <<"\n">> }

LineTexts == {Flatten(ps) : ps \in SeqsUpTo(LinePieces, MaxLinePieces)}

InitActivities ==
    /\ serial = TRUE
    /\ artifact = <<>>
    /\ NoRequests
    /\ fnPc = "ready"
    /\ fnText \in LineTexts
    /\ fnHint = <<>>
    /\ fnOut = <<>>

CallActivities ==
    /\ fnPc = "ready"
    /\ fnOut' = extract_activities_from_plantuml(fnText)
    /\ fnPc' = "done"
    /\ UNCHANGED <<fnText, fnHint, reqVars>>

NextActivities == CallActivities

SpecActivities == InitActivities /\ [][NextActivities]_vars

\* The lines of a text, by position: a line starts at the first character
\* and after every line feed, and runs up to the next line feed.
LineStarts(t) == {s \in 1..Len(t) : s = 1 \/ t[s - 1] = "\n"}

LineAt(t, s) ==
    LET feeds == {e \in s..Len(t) : t[e] = "\n"}
    IN  SubSeq(t, s, IF feeds = {} THEN Len(t) ELSE Min(feeds) - 1)

HasBothTokens(l) ==
    /\ \E i \in 1..(Len(l) - 1) : l[i] = "-" /\ l[i + 1] = ">"
    /\ \E i \in 1..Len(l) : l[i] = ":"

QualifyingStarts(t) == {s \in LineStarts(t) : HasBothTokens(LineAt(t, s))}

\* the k-th qualifying line from the top
KthQualifying(t, k) ==
    CHOOSE s \in QualifyingStarts(t) :
        Cardinality({q \in QualifyingStarts(t) : q <= s}) = k

Trimmed(l) ==
    LET keep == {i \in DOMAIN l : ~IsSpace(l[i])}
    IN  IF keep = {} THEN <<>> ELSE SubSeq(l, Min(keep), Max(keep))

\* C6: the activities are exactly the lines holding both an arrow and a
\* label separator, each trimmed, in their order in the source and as many
\* times as they occur; an empty source gives no activity.
C6_Activities ==
    fnPc = "done" =>
        /\ Len(fnOut) = Cardinality(QualifyingStarts(fnText))
        /\ \A k \in 1..Len(fnOut) :
              fnOut[k] = Trimmed(LineAt(fnText, KthQualifying(fnText, k)))
        /\ (fnText = <<>> => fnOut = <<>>)

\* a source whose first and last lines are the same activity, one of them
\* written with blanks around it, on either side of a line that has the
\* arrow but lacks the separator
C6_Witness ==
    /\ fnPc = "done"
    /\ Len(fnOut) = 2
    /\ fnOut[1] = fnOut[2]
    /\ Cardinality(LineStarts(fnText)) = 3
    /\ \E s \in LineStarts(fnText) \ QualifyingStarts(fnText) :
          \E i \in 1..(Len(LineAt(fnText, s)) - 1) :
              LineAt(fnText, s)[i] = "-" /\ LineAt(fnText, s)[i + 1] = ">"
    /\ \E s \in QualifyingStarts(fnText) : LineAt(fnText, s) # fnOut[1]

(***************************************************************************)
(* _extract_actors_from_plantuml                                           *)
(***************************************************************************)
Quote == "\""

kw_participant == <<"p","a","r","t","i","c","i","p","a","n","t">>
kw_actor == <<"a","c","t","o","r">>
kw_entity == <<"e","n","t","i","t","y">>
kw_boundary == <<"b","o","u","n","d","a","r","y">>
kw_control == <<"c","o","n","t","r","o","l">>
kw_database == <<"d","a","t","a","b","a","s","e">>
kw_collections == <<"c","o","l","l","e","c","t","i","o","n","s">>
kw_queue == <<"q","u","e","u","e">>

\* participant_patterns: for each keyword the quoted pattern, then the bare
\* one, in the order of the list
participant_patterns ==
    << [kw |-> kw_participant, quoted |-> TRUE], [kw |-> kw_participant, quoted |-> FALSE],
       [kw |-> kw_actor, quoted |-> TRUE],       [kw |-> kw_actor, quoted |-> FALSE],
       [kw |-> kw_entity, quoted |-> TRUE],      [kw |-> kw_entity, quoted |-> FALSE],
       [kw |-> kw_boundary, quoted |-> TRUE],    [kw |-> kw_boundary, quoted |-> FALSE],
       [kw |-> kw_control, quoted |-> TRUE],     [kw |-> kw_control, quoted |-> FALSE],
       [kw |-> kw_database, quoted |-> TRUE],    [kw |-> kw_database, quoted |-> FALSE],
       [kw |-> kw_collections, quoted |-> TRUE], [kw |-> kw_collections, quoted |-> FALSE],
       [kw |-> kw_queue, quoted |-> TRUE],       [kw |-> kw_queue, quoted |-> FALSE] >>

\* the length of the longest run of [^"] characters from position j
RECURSIVE NonQuoteRun(_, _)
NonQuoteRun(t, j) ==
    IF j <= Len(t) /\ t[j] # Quote THEN 1 + NonQuoteRun(t, j + 1) ELSE 0

\* "([^"]+)" started at q with [^"]+ taking n characters: greedy, giving
\* characters back one at a time, at least one kept.
\* The result is <<group start, group end + 1, match end + 1>> or <<>>
RECURSIVE QuotedGroup(_, _, _)
QuotedGroup(t, q, n) ==
    IF q > Len(t) \/ t[q] # Quote \/ n < 1 THEN <<>>
    ELSE IF q + n + 1 <= Len(t) /\ t[q + n + 1] = Quote
         THEN <<q + 1, q + n + 1, q + n + 2>>
         ELSE QuotedGroup(t, q, n - 1)

\* (\w+) started at q: greedy, and nothing follows it in the pattern
BareGroup(t, q) ==
    IF WordRun(t, q) >= 1 THEN <<q, q + WordRun(t, q), q + WordRun(t, q)>> ELSE <<>>

\* \s+ taking k characters from j, then the group: \s+ is greedy, gives
\* characters back one at a time and keeps at least one
RECURSIVE SpacesThenLabel(_, _, _, _)
SpacesThenLabel(t, j, k, quoted) ==
    LET g == IF quoted THEN QuotedGroup(t, j + k, NonQuoteRun(t, j + k + 1))
                       ELSE BareGroup(t, j + k)
    IN  IF k < 1 THEN <<>>
        ELSE IF g # <<>> THEN g
        ELSE SpacesThenLabel(t, j, k - 1, quoted)

\* one pattern of participant_patterns tried at position i (re.IGNORECASE)
PatternMatchAt(t, i, pat) ==
    IF LitAt(t, i, pat.kw, TRUE)
    THEN SpacesThenLabel(t, i + Len(pat.kw), SpaceRun(t, i + Len(pat.kw)), pat.quoted)
    ELSE <<>>

\* re.findall: the groups of the non-overlapping matches, left to right
RECURSIVE FindAllFrom(_, _, _)
FindAllFrom(t, i, pat) ==
    LET m == PatternMatchAt(t, i, pat)
    IN  IF i > Len(t) THEN <<>>
        ELSE IF m # <<>> THEN <<SubSeq(t, m[1], m[2] - 1)>> \o FindAllFrom(t, m[3], pat)
        ELSE FindAllFrom(t, i + 1, pat)

findall(pat, t) == FindAllFrom(t, 1, pat)

\* the loop over participant_patterns: actors.extend(matches)
RECURSIVE ExtendAll(_, _)
ExtendAll(t, k) ==
    IF k > Len(participant_patterns) THEN <<>>
    ELSE findall(participant_patterns[k], t) \o ExtendAll(t, k + 1)

\* the code points of the characters, for the order sorted() puts strings in
Printable ==
    << " ", "!", Quote, "#", "$", "%", "&", "'", "(", ")", "*", "+", ",", "-", ".", "/" >>
    \o Digits
    \o << ":", ";", "<", "=", ">", "?", "@" >>
    \o Uppers
    \o << "[", "\\", "]", "^", "_", Backtick >>
    \o Lowers
    \o << "{", "|", "}", "~" >>

ord(c) ==
    CASE c = "\t" -> 9
      [] c = "\n" -> 10
      [] c = "\f" -> 12
      [] c = "\r" -> 13
      [] OTHER -> 31 + (CHOOSE i \in DOMAIN Printable : Printable[i] = c)

\* a < b for two strings
RECURSIVE StrLess(_, _)
StrLess(a, b) ==
    IF b = <<>> THEN FALSE
    ELSE IF a = <<>> THEN TRUE
    ELSE IF Head(a) # Head(b) THEN ord(Head(a)) < ord(Head(b))
    ELSE StrLess(Tail(a), Tail(b))

\* sorted() of a set of strings
RECURSIVE sorted(_)
sorted(S) ==
    IF S = {} THEN <<>>
    ELSE LET least == CHOOSE x \in S : \A y \in S \ {x} : StrLess(x, y)
         IN  <<least>> \o sorted(S \ {least})

extract_actors_from_plantuml(t) == sorted(Range(ExtendAll(t, 1)))

(***************************************************************************)
(* Harness of _extract_actors_from_plantuml                                *)
(***************************************************************************)
MaxActorPieces == 5

ActorPieces ==
    { kw_actor, <<"Q","u","e","u","e">>, <<" ">>, <<"\n">>, <<"x">>, <<Quote>>, Colon }

ActorTexts == {Flatten(ps) : ps \in SeqsUpTo(ActorPieces, MaxActorPieces)}

InitActors ==
    /\ serial = TRUE
    /\ artifact = <<>>
    /\ NoRequests
    /\ fnPc = "ready"
    /\ fnText \in ActorTexts
    /\ fnHint = <<>>
    /\ fnOut = <<>>

CallActors ==
    /\ fnPc = "ready"
    /\ fnOut' = extract_actors_from_plantuml(fnText)
    /\ fnPc' = "done"
    /\ UNCHANGED <<fnText, fnHint, reqVars>>

NextActors == CallActors

SpecActors == InitActors /\ [][NextActors]_vars

(***************************************************************************)
(* Declarations of a diagram source, as the property of participants       *)
(* speaks of them: a statement that begins (after blanks) with one of the  *)
(* keywords, then white space, then a quoted label or a bare identifier.   *)
(***************************************************************************)
Keywords ==
    { kw_participant, kw_actor, kw_entity, kw_boundary,
      kw_control, kw_database, kw_collections, kw_queue }

\* the label declared by keyword kw written at position p, or <<>>
DeclaredAt(t, p, kw) ==
    LET j == p + Len(kw)
        q == j + SpaceRun(t, j)
        n == NonQuoteRun(t, q + 1)
    IN  IF ~LitAt(t, p, kw, TRUE) \/ SpaceRun(t, j) = 0 THEN <<>>
        ELSE IF q <= Len(t) /\ t[q] = Quote
             THEN (IF n >= 1 /\ q + n + 1 <= Len(t) THEN SubSeq(t, q + 1, q + n) ELSE <<>>)
        ELSE SubSeq(t, q, q + WordRun(t, q) - 1)

\* the positions where a statement begins: the first non-blank character
\* of a line
StatementStarts(t) ==
    {p \in 1..Len(t) : /\ ~IsSpace(t[p])
                       /\ \E s \in LineStarts(t) : s <= p /\ p = s + SpaceRun(t, s)}

DeclaredLabels(t) ==
    {DeclaredAt(t, p, kw) : p \in StatementStarts(t), kw \in Keywords} \ {<<>>}

\* C5: the participants are returned without duplicates, in ascending order,
\* and are exactly the labels of the declarations of the source: every
\* declared label, and nothing else (no word of a message text).
C5_Participants ==
    fnPc = "done" =>
        /\ \A i \in 1..(Len(fnOut) - 1) : StrLess(fnOut[i], fnOut[i + 1])
        /\ Range(fnOut) = DeclaredLabels(fnText)

(***************************************************************************)
(* The external collaborators                                              *)
(***************************************************************************)
PingSource ==
    <<"A", " ", "-", ">", " ", "B", ":", " ", "p", "i", "n", "g" >>

PingPongResponse ==
    <<Backtick, Backtick, Backtick, "p", "l", "a", "n", "t", "u", "m", "l",
       "\n", "A", " ", "-", ">", " ", "B", ":", " ", "p", "i", "n", "g",
       "\n", "B", " ", "-", ">", " ", "A", ":", " ", "p", "o", "n", "g",
       "\n", Backtick, Backtick, Backtick >>

LoginResponse ==
    <<Backtick, Backtick, Backtick, "p", "l", "a", "n", "t", "u", "m", "l",
       "\n", "a", "c", "t", "o", "r", " ", "U", "\n", "U", " ", "-", ">",
       " ", "S", ":", " ", "h", "i", "\n", Backtick, Backtick, Backtick >>

ProseResponse ==
    <<"n", "o", " ", "d", "i", "a", "g", "r", "a", "m" >>

\* what agent.run() may answer: a block of the requested kind, or prose
Responses == {PingPongResponse, LoginResponse, ProseResponse}

\* the plantuml_code a refinement request may carry (main.py refuses an
\* empty one)
ExistingSources == {PingSource}

\* str(e) of the exceptions the collaborators raise
AgentError  == "agent failed"
RenderError == "render failed"

filename_base == "e2e_test_diagram"

\* the file render_plantuml_from_text writes for a base name
ArtifactFile(base) == base \o ".png"

ArtifactFiles == {ArtifactFile(filename_base)}

\* render_plantuml_from_text, when it succeeds: the file named after the
\* base name now holds the render of the text, and its path is returned
RenderWrites(text, base) ==
    artifact' = [artifact EXCEPT ![ArtifactFile(base)] = Some(text)]

host_prefix == "/static"

\* f"{host_prefix}/{Path(img_path).name}"
ImageUrl(name) == host_prefix \o "/" \o name

\* the hosting layer lets a request in
CanStart(r) ==
    /\ pc[r] = "idle"
    /\ serial => \A q \in Reqs : pc[q] \in {"idle", "done"}

Step(r, name) == trace' = [trace EXCEPT ![r] = Append(@, name)]

Steps(r, first, second) == trace' = [trace EXCEPT ![r] = Append(Append(@, first), second)]

\* The three pure functions, tabulated once over the texts a request can
\* hold: the answers of the agent, the code extracted from them and the code
\* a refinement request comes with.
CodeOf == [t \in Responses |-> extract_code_block(t, plantuml)]

Sources == {CodeOf[t] : t \in Responses} \cup ExistingSources

ActorsOf == [c \in Sources |-> extract_actors_from_plantuml(c)]

ActivitiesOf == [c \in Sources |-> extract_activities_from_plantuml(c)]

(***************************************************************************)
(* process_csv_and_generate                                                *)
(***************************************************************************)
\* tempfile.NamedTemporaryFile(..., delete=False): the copy exists from here
GenBegin(r) ==
    /\ CanStart(r)
    /\ pc' = [pc EXCEPT ![r] = "read_csv"]
    /\ loc' = [loc EXCEPT ![r].kind = "generate"]
    /\ tmpFiles' = tmpFiles \cup {r}
    /\ UNCHANGED <<fnVars, serial, outcome, result, artifact, trace, seen>>

\* pd.read_csv / df.to_csv inside the with block, which is outside the try:
\* an exception of theirs leaves the function, tmp_csv_path never bound
GenReadCsv(r) ==
    /\ pc[r] = "read_csv"
    /\ \/ /\ pc' = [pc EXCEPT ![r] = "agent"]
          /\ UNCHANGED <<outcome, trace>>
       \/ /\ pc' = [pc EXCEPT ![r] = "done"]
          /\ outcome' = [outcome EXCEPT ![r] = "raised"]
          /\ Step(r, "failed")
    /\ UNCHANGED <<fnVars, serial, loc, result, tmpFiles, artifact, seen>>

\* the dictionary of the except branch
gen_failure_result(e) ==
    [success |-> FALSE, error |-> Some(e), plantuml_code |-> None,
     plantuml_image |-> None, actors |-> <<>>, activities |-> <<>>]

\* a failure branch that hands back the code extracted before the failure
GenFailPartial(r, e) ==
    /\ pc' = [pc EXCEPT ![r] = "done"]
    /\ outcome' = [outcome EXCEPT ![r] = "returned"]
    /\ result' = [result EXCEPT
                     ![r] = [gen_failure_result(e) EXCEPT !.plantuml_code = Some(loc[r].code)]]
    /\ tmpFiles' = tmpFiles \ {r}

\* except Exception as e: return {...}, then the finally block
GenFail(r, e) ==
    /\ pc' = [pc EXCEPT ![r] = "done"]
    /\ outcome' = [outcome EXCEPT ![r] = "returned"]
    /\ result' = [result EXCEPT ![r] = gen_failure_result(e)]
    /\ tmpFiles' = tmpFiles \ {r}

\* CsvTools, PythonTools, Agent and agent.run(puml_prompt)
GenAgentRun(r) ==
    /\ pc[r] = "agent"
    /\ \/ \E text \in Responses :
             /\ loc' = [loc EXCEPT ![r].resp = text]
             /\ pc' = [pc EXCEPT ![r] = "extract"]
             /\ Step(r, "capability")
             /\ UNCHANGED <<outcome, result, tmpFiles>>
       \/ /\ GenFail(r, AgentError)
          /\ Steps(r, "capability", "failed")
          /\ UNCHANGED loc
    /\ UNCHANGED <<fnVars, serial, artifact, seen>>

\* plantuml_code = _extract_code_block(puml_text_raw, lang_hint="plantuml")
GenExtract(r) ==
    /\ loc[r].kind = "generate"
    /\ pc[r] = "extract"
    /\ loc' = [loc EXCEPT ![r].code = CodeOf[loc[r].resp]]
    /\ pc' = [pc EXCEPT ![r] = "render"]
    /\ Step(r, "extract")
    /\ UNCHANGED <<fnVars, serial, outcome, result, tmpFiles, artifact, seen>>

\* a render step that tries the renderer again when it fails
GenRenderRetry(r) ==
    /\ loc[r].kind = "generate"
    /\ pc[r] = "render"
    /\ \/ /\ RenderWrites(loc[r].code, filename_base)
          /\ loc' = [loc EXCEPT ![r].img = Some(ArtifactFile(filename_base))]
          /\ pc' = [pc EXCEPT ![r] = "analyze"]
          /\ Step(r, "render")
       \/ /\ Len(trace[r]) < 4
          /\ Step(r, "render")
          /\ UNCHANGED <<pc, loc, artifact>>
    /\ UNCHANGED <<fnVars, serial, outcome, result, tmpFiles, seen>>

\* puml_img_path = render_plantuml_from_text(plantuml_code, ...)
GenRender(r) ==
    /\ loc[r].kind = "generate"
    /\ pc[r] = "render"
    /\ \/ /\ RenderWrites(loc[r].code, filename_base)
          /\ loc' = [loc EXCEPT ![r].img = Some(ArtifactFile(filename_base))]
          /\ pc' = [pc EXCEPT ![r] = "analyze"]
          /\ Step(r, "render")
          /\ UNCHANGED <<outcome, result, tmpFiles>>
       \/ /\ GenFail(r, RenderError)
          /\ Steps(r, "render", "failed")
          /\ UNCHANGED <<loc, artifact>>
    /\ UNCHANGED <<fnVars, serial, seen>>

\* actors = ..., activities = ...
GenAnalyze(r) ==
    /\ loc[r].kind = "generate"
    /\ pc[r] = "analyze"
    /\ loc' = [loc EXCEPT ![r].actors = ActorsOf[loc[r].code],
                          ![r].activities = ActivitiesOf[loc[r].code]]
    /\ pc' = [pc EXCEPT ![r] = "assemble"]
    /\ Step(r, "analyze")
    /\ UNCHANGED <<fnVars, serial, outcome, result, tmpFiles, artifact, seen>>

\* the dictionary of the success return
gen_success_result(r) ==
    [success |-> TRUE, error |-> None, plantuml_code |-> Some(loc[r].code),
     plantuml_image |-> Some(ImageUrl(loc[r].img[1])),
     actors |-> loc[r].actors, activities |-> loc[r].activities]

\* return {...}, then the finally block
GenReturn(r) ==
    /\ loc[r].kind = "generate"
    /\ pc[r] = "assemble"
    /\ result' = [result EXCEPT ![r] = gen_success_result(r)]
    /\ outcome' = [outcome EXCEPT ![r] = "returned"]
    /\ tmpFiles' = tmpFiles \ {r}
    /\ seen' = [seen EXCEPT ![r] = artifact[loc[r].img[1]]]
    /\ pc' = [pc EXCEPT ![r] = "done"]
    /\ Step(r, "assemble")
    /\ UNCHANGED <<fnVars, serial, loc, artifact>>

(***************************************************************************)
(* refine_plantuml_code                                                    *)
(***************************************************************************)
\* the dictionary of the except branch
refine_failure_result(e) ==
    [success |-> FALSE, error |-> Some(e), plantuml_code |-> None,
     plantuml_image |-> None, actors |-> <<>>, activities |-> <<>>]

\* except Exception as e: return {...}
RefFail(r, e) ==
    /\ pc' = [pc EXCEPT ![r] = "done"]
    /\ outcome' = [outcome EXCEPT ![r] = "returned"]
    /\ result' = [result EXCEPT ![r] = refine_failure_result(e)]

\* Agent(...) and agent.run(...) on the code and the message of the request
RefAgentRun(r) ==
    /\ CanStart(r)
    /\ \E src \in ExistingSources :
          \/ \E text \in Responses :
                /\ loc' = [loc EXCEPT ![r].kind = "refine", ![r].existing = src,
                                      ![r].resp = text]
                /\ pc' = [pc EXCEPT ![r] = "extract"]
                /\ Step(r, "capability")
                /\ UNCHANGED <<outcome, result>>
          \/ /\ loc' = [loc EXCEPT ![r].kind = "refine", ![r].existing = src]
             /\ RefFail(r, AgentError)
             /\ Steps(r, "capability", "failed")
    /\ UNCHANGED <<fnVars, serial, tmpFiles, artifact, seen>>

\* updated_code = _extract_code_block(resp.content, lang_hint="plantuml")
RefExtract(r) ==
    /\ loc[r].kind = "refine"
    /\ pc[r] = "extract"
    /\ loc' = [loc EXCEPT ![r].code = CodeOf[loc[r].resp]]
    /\ pc' = [pc EXCEPT ![r] = "render"]
    /\ Step(r, "extract")
    /\ UNCHANGED <<fnVars, serial, outcome, result, tmpFiles, artifact, seen>>

\* a render of the code the request came with, not of the updated code
RefRenderedTextStale(r) == loc[r].existing

\* the text refine_plantuml_code hands to the renderer
RefRenderedText(r) == loc[r].code

\* img_path = render_plantuml_from_text(updated_code, ...)
RefRender(r) ==
    /\ loc[r].kind = "refine"
    /\ pc[r] = "render"
    /\ \/ /\ RenderWrites(RefRenderedText(r), filename_base)
          /\ loc' = [loc EXCEPT ![r].img = Some(ArtifactFile(filename_base))]
          /\ pc' = [pc EXCEPT ![r] = "analyze"]
          /\ Step(r, "render")
          /\ UNCHANGED <<outcome, result>>
       \/ /\ RefFail(r, RenderError)
          /\ Steps(r, "render", "failed")
          /\ UNCHANGED <<loc, artifact>>
    /\ UNCHANGED <<fnVars, serial, tmpFiles, seen>>

\* an analysis of the code the request came with, not of the updated code
RefAnalyzedTextStale(r) == loc[r].existing

\* the text refine_plantuml_code hands to the two analysers
RefAnalyzedText(r) == loc[r].code

\* "actors": _extract_actors_from_plantuml(updated_code),
\* "activities": _extract_activities_from_plantuml(updated_code)
RefAnalyze(r) ==
    /\ loc[r].kind = "refine"
    /\ pc[r] = "analyze"
    /\ loc' = [loc EXCEPT ![r].actors = ActorsOf[RefAnalyzedText(r)],
                          ![r].activities = ActivitiesOf[RefAnalyzedText(r)]]
    /\ pc' = [pc EXCEPT ![r] = "assemble"]
    /\ Step(r, "analyze")
    /\ UNCHANGED <<fnVars, serial, outcome, result, tmpFiles, artifact, seen>>

\* the dictionary of the success return
refine_success_result(r) ==
    [success |-> TRUE, error |-> None, plantuml_code |-> Some(loc[r].code),
     plantuml_image |-> Some(ImageUrl(loc[r].img[1])),
     actors |-> loc[r].actors, activities |-> loc[r].activities]

RefReturn(r) ==
    /\ loc[r].kind = "refine"
    /\ pc[r] = "assemble"
    /\ result' = [result EXCEPT ![r] = refine_success_result(r)]
    /\ outcome' = [outcome EXCEPT ![r] = "returned"]
    /\ seen' = [seen EXCEPT ![r] = artifact[loc[r].img[1]]]
    /\ pc' = [pc EXCEPT ![r] = "done"]
    /\ Step(r, "assemble")
    /\ UNCHANGED <<fnVars, serial, loc, tmpFiles, artifact>>

(***************************************************************************)
(* The service: requests of both kinds, one at a time or in parallel       *)
(***************************************************************************)
Init ==
    /\ NoCall
    /\ serial \in BOOLEAN
    /\ artifact = [f \in ArtifactFiles |-> None]
    /\ NoRequests

Next ==
    \E r \in Reqs :
        \/ GenBegin(r)
        \/ GenReadCsv(r)
        \/ GenAgentRun(r)
        \/ GenExtract(r)
        \/ GenRender(r)
        \/ GenAnalyze(r)
        \/ GenReturn(r)
        \/ RefAgentRun(r)
        \/ RefExtract(r)
        \/ RefRender(r)
        \/ RefAnalyze(r)
        \/ RefReturn(r)

Spec == Init /\ [][Next]_vars

(***************************************************************************)
(* Properties of the service                                               *)
(***************************************************************************)
Failed(r) == \E i \in DOMAIN trace[r] : trace[r][i] = "failed"

SuccessShape(res) ==
    /\ res.success
    /\ res.plantuml_code # None
    /\ res.plantuml_image # None
    /\ res.error = None

FailureShape(res) ==
    /\ ~res.success
    /\ res.error # None
    /\ res.plantuml_code = None
    /\ res.plantuml_image = None
    /\ res.actors = <<>>
    /\ res.activities = <<>>

\* C1: whichever step fails, reading the tabular input included, the call
\* ends by returning a record with success = false and the failure's message;
\* no exception leaves the orchestrator.
C1_FailureIsolation ==
    \A r \in Reqs :
        pc[r] = "done" =>
            /\ outcome[r] = "returned"
            /\ Failed(r) =>
                  /\ ~result[r].success
                  /\ result[r].error \in {Some(AgentError), Some(RenderError)}

\* C2: every returned record is either a success with code and image and no
\* error, or a failure with an error, no code, no image and no actors or
\* activities; a request that failed returns the failure shape, whatever it
\* had already extracted.
C2_WellFormed ==
    \A r \in Reqs :
        outcome[r] = "returned" =>
            /\ SuccessShape(result[r]) \/ FailureShape(result[r])
            /\ Failed(r) => FailureShape(result[r])
            /\ ~Failed(r) => SuccessShape(result[r])

\* a request that failed in the renderer, after extraction had produced its
\* code, next to one that succeeded
C2_Witness ==
    \E r, q \in Reqs :
        /\ outcome[r] = "returned" /\ ~result[r].success /\ loc[r].code # <<>>
        /\ outcome[q] = "returned" /\ result[q].success

\* scenario C: a refinement of PingSource answered by the ping-pong block,
\* rendered successfully and returned
ScenarioC(r) ==
    /\ loc[r].kind = "refine"
    /\ loc[r].existing = PingSource
    /\ loc[r].resp = PingPongResponse
    /\ loc[r].img # None
    /\ outcome[r] = "returned"

PingPongActivities ==
    << <<"A"," ","-",">"," ","B",":"," ","p","i","n","g">>,
       <<"B"," ","-",">"," ","A",":"," ","p","o","n","g">> >>

\* C7 as stated: scenario C returns success, the actors A and B and the two
\* activities.
C7_ScenarioC_AsStated ==
    \A r \in Reqs :
        ScenarioC(r) =>
            /\ result[r].success
            /\ result[r].actors = << <<"A">>, <<"B">> >>
            /\ result[r].activities = PingPongActivities

\* C7 as amended: scenario C returns success, no actors (the source declares
\* none) and the two activities.
C7_ScenarioC ==
    \A r \in Reqs :
        ScenarioC(r) =>
            /\ result[r].success
            /\ result[r].actors = <<>>
            /\ result[r].activities = PingPongActivities

C7_Witness == \E r \in Reqs : ScenarioC(r) /\ result[r].success

Pipeline == <<"capability", "extract", "render", "analyze", "assemble">>

\* the steps of one pass: a prefix of the pipeline, or a prefix cut short by
\* the failure
OnePass(tr) ==
    \E k \in 0..Len(Pipeline) :
        \/ tr = SubSeq(Pipeline, 1, k)
        \/ tr = Append(SubSeq(Pipeline, 1, k), "failed")

Ran(r, step) == \E i \in DOMAIN trace[r] : trace[r][i] = step

\* C8: the steps of a request run in the order capability, extraction,
\* rendering, analysis, assembly, each at most once; analysis runs only after
\* the renderer has succeeded; a failure is terminal, no step follows it.
C8_SinglePass ==
    \A r \in Reqs :
        /\ OnePass(trace[r])
        /\ Ran(r, "analyze") => loc[r].img # None
        /\ Failed(r) => pc[r] = "done" /\ ~Ran(r, "analyze") /\ ~Ran(r, "assemble")

\* one request went through the whole pipeline and another failed in the
\* renderer
C8_Witness ==
    \E r, q \in Reqs :
        /\ trace[r] = Pipeline
        /\ trace[q] = <<"capability", "extract", "render", "failed">>

\* C9: every successful request names the same artifact; when requests run
\* one after another the artifact holds, when a request returns, the render
\* of the code it returns.
C9_SharedArtifact ==
    \A r \in Reqs :
        (outcome[r] = "returned" /\ result[r].success) =>
            /\ result[r].plantuml_image = Some("/static/e2e_test_diagram.png")
            /\ serial => seen[r] = result[r].plantuml_code

\* the race: with requests in parallel, a request returns its code while the
\* artifact it names holds the render of the other request's code
C9_Witness ==
    /\ ~serial
    /\ \E r, q \in Reqs :
          /\ r # q
          /\ outcome[r] = "returned" /\ result[r].success
          /\ seen[r] # result[r].plantuml_code
          /\ seen[r] = Some(loc[q].code)

\* C10: when a generation call has ended, however it ended, the temporary
\* CSV copy it made is gone.
C10_TempFileCleanup ==
    \A r \in Reqs : pc[r] = "done" => r \notin tmpFiles

====
